---------------------------- MODULE Spec2Model ----------------------------
(***************************************************************************)
(* Model of the IncDev trail/score engine (src/incdev.py) of the zyLab     *)
(* analysis tool.                                                          *)
(*                                                                         *)
(* The state is the run list of one (student, lab) pair, data[user][lab],  *)
(* and the record incdev.run builds for it.  Python lists are TLA+         *)
(* sequences; At(list, i) reads the Python index i, so the loops keep the  *)
(* source's zero-based indices.                                            *)
(*                                                                         *)
(* Numbers.  Scores are kept in hundredths (1.0 is 100), so round(x, 2) is *)
(* exact; diff ratios are kept as numerator/denominator pairs and compared *)
(* with the thresholds by cross-multiplication; timestamps are seconds     *)
(* counted from midnight of a Monday, 1 January of a non-leap year.        *)
(*                                                                         *)
(* Source text.  A submission's code is abstracted to a record             *)
(*   [ver, nonblank, blank]                                                *)
(* standing for a text of `nonblank` pairwise different non-blank lines    *)
(* ver:1 .. ver:nonblank interleaved with `blank` blank lines.  Two texts  *)
(* of the same ver share their common prefix of lines and nothing else;    *)
(* two texts of different ver share no line.  The generators compare the   *)
(* texts os.linesep.join rebuilt, whose last line has no line ending:      *)
(* with keepends=True the last line of the shorter of two texts therefore  *)
(* equals no line of the longer one.  On this family difflib.Differ's      *)
(* output is determined: it marks with "- " or "+ " exactly the lines that *)
(* are not in the common part.                                             *)
(*                                                                         *)
(* Strings.  A trail is kept as one piece per run, each piece the sequence *)
(* of tokens the code appends for that run; the Python string is the       *)
(* concatenation of all tokens in order.                                   *)
(***************************************************************************)
EXTENDS Integers, Sequences, FiniteSets, TLC

VARIABLES runs, pc, incdev_data, exc

vars == <<runs, pc, incdev_data, exc>>

---------------------------------------------------------------------------
(* Bounds of the model *)

MaxRuns == 4

MaxRunsLong == 14

MaxRunsTimed == 4

MaxRunsDays == 4

---------------------------------------------------------------------------
(* Program constants *)

\* score = 1 (1.00 in hundredths)
FullScore == 100

\* line_count - prev_lines > 20
IncDevLimit == 20

\* score -= .04 * lines_over (hundredths per line)
PenaltyPerLine == 4

\* score += .1 (hundredths)
Bonus == 10

\* abs(lines[i] - lines[i - 1]) > 10
NotableLimit == 10

\* i - start_loc == 10
MaxOmitted == 10

\* diff <= 1800
SessionGap == 1800

\* run.type == 1 is a submit run, run.type == 0 a develop run
SUBMIT == 1

DEVELOP == 0

\* start_loc = None; `if start_loc and end_loc` reads None and 0 alike
None == 0

\* sub_times.append(-1)
NoTime == -1

---------------------------------------------------------------------------
(* Python helpers *)

At(list, i) == list[i + 1]

Put(list, i, v) == [list EXCEPT ![i + 1] = v]

Last(list) == list[Len(list)]

Abs(x) == IF x < 0 THEN -x ELSE x

\* round(num / den) for num >= 0, den > 0: Python rounds halves to even
RoundHalfEven(num, den) ==
    LET q == num \div den
        r == num % den
    IN  IF 2 * r < den THEN q
        ELSE IF 2 * r > den THEN q + 1
        ELSE IF q % 2 = 0 THEN q ELSE q + 1

\* an exception leaving a generator
Raise(name) == [exc |-> name, val |-> 0]

Return(v) == [exc |-> "", val |-> v]

---------------------------------------------------------------------------
(* Source text *)

\* the empty string ''
EmptyCode == [ver |-> 0, n |-> 0]

\* os.linesep.join([s for s in run.code.splitlines() if s.strip()])
StripBlank(code) ==
    IF code.nonblank = 0 THEN EmptyCode
    ELSE [ver |-> code.ver, n |-> code.nonblank]

\* len(code.splitlines())
LineCount(code) == code.n

\* the lines sub1 and sub2 (split with keepends=True) have in common
CommonLines(sub1, sub2) ==
    IF sub1.ver # sub2.ver THEN 0
    ELSE IF sub1.n = sub2.n THEN sub1.n
    ELSE IF sub1.n < sub2.n THEN sub1.n - 1
    ELSE IF sub2.n = 0 THEN 0 ELSE sub2.n - 1

\* get_diff: lines Differ marks "+ " or "- " over the non-blank lines of sub1
get_diff(sub1, sub2) ==
    LET lineChanges == (sub1.n - CommonLines(sub1, sub2))
                         + (sub2.n - CommonLines(sub1, sub2))
        lineCount == sub1.n
    IN  IF lineCount = 0 THEN Raise("ZeroDivisionError")
        ELSE Return(<<lineChanges, lineCount>>)

\* change > .5
OverHalf(change) == 2 * change[1] > change[2]

\* diff > .7
Drastic(diff) == 10 * diff[1] > 7 * diff[2]

---------------------------------------------------------------------------
(* assign_inc_dev_score *)

\* variant of adjust_score: the cap at 1 left out
adjust_score_nocap(score) == score

\* variant of adjust_score: the score also bottoms out at 0 inside the loop
adjust_score_floor(score) ==
    IF score > FullScore THEN FullScore ELSE IF score < 0 THEN 0 ELSE score

\* if score > 1: score = 1
adjust_score(score) == IF score > FullScore THEN FullScore ELSE score

\* one iteration of the scoring loop, before the cap
ScoreStep(score, line_count, prev_lines) ==
    IF line_count - prev_lines > IncDevLimit
    THEN score - PenaltyPerLine * (line_count - prev_lines - IncDevLimit)
    ELSE score + Bonus

RECURSIVE ScoreLoop(_, _, _, _)
ScoreLoop(rs, k, score, prev_lines) ==
    IF k >= Len(rs) THEN score
    ELSE LET line_count == LineCount(StripBlank(At(rs, k).code))
         IN  ScoreLoop(rs, k + 1,
                       adjust_score(ScoreStep(score, line_count, prev_lines)),
                       line_count)

assign_inc_dev_score(rs) ==
    LET score == ScoreLoop(rs, 0, FullScore, 0)
    IN  Return(IF score < 0 THEN 0 ELSE score)

---------------------------------------------------------------------------
(* assign_inc_dev_score_trail *)

\* one entry per run: '^' if drastic, str(line_count), '(' round(score, 2) ')'
RECURSIVE ScoreTrailLoop(_, _, _, _, _, _)
ScoreTrailLoop(rs, k, trail, score, prev_lines, prev_code) ==
    IF k >= Len(rs) THEN Return(trail)
    ELSE LET code == StripBlank(At(rs, k).code)
             line_count == LineCount(code)
             change == IF prev_code # EmptyCode THEN get_diff(prev_code, code)
                       ELSE Return(<<0, 1>>)
             caret == prev_code # EmptyCode /\ OverHalf(change.val)
             stepped == IF line_count - prev_lines > IncDevLimit
                        THEN score - PenaltyPerLine
                                       * (line_count - prev_lines - IncDevLimit)
                        ELSE IF score + Bonus > FullScore THEN FullScore
                        ELSE score + Bonus
             entry == [caret |-> caret, count |-> line_count, score |-> stepped]
         IN  IF change.exc # "" THEN change
             ELSE ScoreTrailLoop(rs, k + 1, Append(trail, entry), stepped,
                                 line_count, code)

assign_inc_dev_score_trail(rs) == ScoreTrailLoop(rs, 0, <<>>, FullScore, 0, EmptyCode)

---------------------------------------------------------------------------
(* Relevance filter: check_subsequence_values, check_subsequence_length *)

\* the element lines[j] leaves the trend from lines[start_loc] to lines[end_loc]
OffTrend(lines, j, start_loc, end_loc) ==
    IF At(lines, start_loc) < At(lines, end_loc)
    THEN At(lines, j) < At(lines, start_loc) \/ At(lines, j) > At(lines, end_loc)
    ELSE At(lines, j) > At(lines, start_loc) \/ At(lines, j) < At(lines, end_loc)

\* for j in range(start_loc, end_loc + 1), start_loc reassigned inside the loop
RECURSIVE TrendInner(_, _, _, _, _)
TrendInner(relevance_list, lines, j, start_loc, end_loc) ==
    IF j > end_loc THEN relevance_list
    ELSE IF OffTrend(lines, j, start_loc, end_loc)
         THEN TrendInner(Put(relevance_list, j, 1), lines, j + 1, j + 1, end_loc)
         ELSE TrendInner(relevance_list, lines, j + 1, start_loc, end_loc)

\* for i in range(1, len(relevance_list))
RECURSIVE TrendOuter(_, _, _, _, _)
TrendOuter(relevance_list, lines, i, start_loc, end_loc) ==
    IF i >= Len(relevance_list) THEN relevance_list
    ELSE LET starts == At(relevance_list, i) = 0 /\ At(relevance_list, i - 1) > 0
             ends == ~starts /\ At(relevance_list, i) > 0
                             /\ At(relevance_list, i - 1) = 0
             s == IF starts THEN i ELSE start_loc
             e == IF ends THEN i - 1 ELSE end_loc
         IN  IF s # None /\ e # None
             THEN TrendOuter(TrendInner(relevance_list, lines, s, s, e),
                             lines, i + 1, None, None)
             ELSE TrendOuter(relevance_list, lines, i + 1, s, e)

check_subsequence_values(relevance_list, lines) ==
    TrendOuter(relevance_list, lines, 1, None, None)

\* variant of TooSmall: end_loc - start_loc < 1
TooSmall_one(start_loc, end_loc) == end_loc - start_loc < 1

\* end_loc - start_loc < 2
TooSmall(start_loc, end_loc) == end_loc - start_loc < 2

\* variant of OmitLimitReached: i - start_loc == 11
OmitLimitReached_late(i, start_loc) == i - start_loc = MaxOmitted + 1

\* i - start_loc == 10
OmitLimitReached(i, start_loc) == i - start_loc = MaxOmitted

\* for j in range(start_loc, end_loc + 1): relevance_list[j] = 1
PromoteAll(relevance_list, start_loc, end_loc) ==
    [k \in 1..Len(relevance_list) |->
        IF start_loc <= k - 1 /\ k - 1 <= end_loc THEN 1 ELSE relevance_list[k]]

\* for i in range(1, len(relevance_list))
RECURSIVE LengthLoop(_, _, _, _)
LengthLoop(relevance_list, i, start_loc, end_loc) ==
    IF i >= Len(relevance_list) THEN relevance_list
    ELSE LET starts == At(relevance_list, i) = 0 /\ At(relevance_list, i - 1) > 0
             ends == ~starts /\ At(relevance_list, i) > 0
                             /\ At(relevance_list, i - 1) = 0
             cut == ~starts /\ ~ends /\ start_loc # None
                            /\ OmitLimitReached(i, start_loc)
             rl1 == IF cut THEN Put(relevance_list, i, 1) ELSE relevance_list
             s == IF starts THEN i ELSE IF cut THEN None ELSE start_loc
             e == IF ends THEN i - 1 ELSE end_loc
         IN  IF s # None /\ e # None
             THEN LengthLoop(IF TooSmall(s, e) THEN PromoteAll(rl1, s, e) ELSE rl1,
                             i + 1, None, None)
             ELSE LengthLoop(rl1, i + 1, s, e)

check_subsequence_length(relevance_list) ==
    LengthLoop(relevance_list, 1, None, None)

---------------------------------------------------------------------------
(* assign_loc_trail *)

\* for run in runs: lines.append(...); drastic_change.append(...) unless prev_code == ''
RECURSIVE LocScan(_, _, _, _, _)
LocScan(rs, k, lines, drastic_change, prev_code) ==
    IF k >= Len(rs) THEN Return([lines |-> lines, drastic_change |-> drastic_change])
    ELSE LET code == StripBlank(At(rs, k).code)
             diff == IF prev_code # EmptyCode THEN get_diff(prev_code, code)
                     ELSE Return(<<0, 1>>)
             dc == IF prev_code # EmptyCode
                   THEN Append(drastic_change, IF Drastic(diff.val) THEN 1 ELSE 0)
                   ELSE drastic_change
         IN  IF diff.exc # "" THEN diff
             ELSE LocScan(rs, k + 1, Append(lines, LineCount(code)), dc, code)

\* relevance_list[-1] = 1; relevance_list.append(tag)
Notable(relevance_list, tag) ==
    Append([relevance_list EXCEPT ![Len(relevance_list)] = 1], tag)

\* for i in range(1, len(lines) - 1), then relevance_list.append(1)
RECURSIVE SeedLoop(_, _, _, _)
SeedLoop(lines, drastic_change, i, relevance_list) ==
    IF i >= Len(lines) - 1 THEN Return(Append(relevance_list, 1))
    ELSE IF At(lines, i) - At(lines, i - 1) > IncDevLimit
         THEN SeedLoop(lines, drastic_change, i + 1, Notable(relevance_list, 2))
    ELSE IF Abs(At(lines, i) - At(lines, i - 1)) > NotableLimit
         THEN SeedLoop(lines, drastic_change, i + 1, Notable(relevance_list, 1))
    ELSE IF i >= Len(drastic_change) THEN Raise("IndexError")
    ELSE IF At(drastic_change, i) = 1
         THEN SeedLoop(lines, drastic_change, i + 1, Notable(relevance_list, 1))
    ELSE SeedLoop(lines, drastic_change, i + 1, Append(relevance_list, 0))

\* the tags after the three passes
Classify(lines, drastic_change) ==
    LET seeded == SeedLoop(lines, drastic_change, 1, <<1>>)
    IN  IF seeded.exc # "" THEN seeded
        ELSE Return(check_subsequence_length(
                        check_subsequence_values(seeded.val, lines)))

\* for i in range(1, len(lines)): one piece of loc_trail per run
RECURSIVE RenderLoop(_, _, _, _, _)
RenderLoop(lines, drastic_change, relevance_list, i, loc_trail) ==
    IF i >= Len(lines) THEN Return(loc_trail)
    ELSE IF At(relevance_list, i) = 0
         THEN RenderLoop(lines, drastic_change, relevance_list, i + 1,
                         Append(loc_trail, <<".">>))
    ELSE IF i >= Len(drastic_change) THEN Raise("IndexError")
    ELSE LET comma == IF Last(Last(loc_trail)) # "." THEN <<",">> ELSE <<>>
             caret == IF At(drastic_change, i) = 1 THEN <<"^">> ELSE <<>>
             star == IF At(relevance_list, i) = 1 THEN <<>> ELSE <<"*">>
         IN  RenderLoop(lines, drastic_change, relevance_list, i + 1,
                        Append(loc_trail,
                               comma \o caret \o <<ToString(At(lines, i))>> \o star))

\* loc_trail = str(lines[0]), then the pieces of the runs after it
RenderTags(lines, drastic_change, tags) ==
    IF tags.exc # "" THEN tags
    ELSE IF Len(lines) = 0 THEN Raise("IndexError")
    ELSE RenderLoop(lines, drastic_change, tags.val, 1, <<<<ToString(At(lines, 0))>>>>)

RenderScan(scan) ==
    IF scan.exc # "" THEN scan
    ELSE RenderTags(scan.val.lines, scan.val.drastic_change,
                    Classify(scan.val.lines, scan.val.drastic_change))

assign_loc_trail(rs) == RenderScan(LocScan(rs, 0, <<>>, <<0>>, EmptyCode))

---------------------------------------------------------------------------
(* assign_time_trail, get_sub_sessions, get_submission_time_diff *)

\* prev = None (a timestamp is never negative)
NoPrev == -2

get_submission_time_diff(prev, curr) ==
    IF curr = NoTime THEN -1 ELSE curr - prev

\* variant of SameSession: diff < 1800
SameSession_strict(diff) == diff < SessionGap

\* diff <= 1800
SameSession(diff) == diff <= SessionGap

\* session_breaks = [0]; for i in range(1, len(run_times))
RECURSIVE SessionLoop(_, _, _)
SessionLoop(run_times, i, session_breaks) ==
    IF i >= Len(run_times) THEN session_breaks
    ELSE LET diff == get_submission_time_diff(At(run_times, i - 1), At(run_times, i))
         IN  SessionLoop(run_times, i + 1,
                         Append(session_breaks, IF SameSession(diff) THEN 0 ELSE 1))

get_sub_sessions(run_times) == SessionLoop(run_times, 1, <<0>>)

\* sub_time_trail[-1] in special_chars, by the token the string ends with
EndsSpecial(token) == token \in {"-", ",", " / "}

\* variant of AnchorAfterDevelop: a develop run sets prev = None
AnchorAfterDevelop_reset(prev) == NoPrev

\* a develop run leaves prev as it is
AnchorAfterDevelop(prev) == prev

\* for i in range(len(sub_times)): one piece of sub_time_trail per run
RECURSIVE TimeLoop(_, _, _, _, _)
TimeLoop(sub_times, session_breaks, i, sub_time_trail, prev) ==
    IF i >= Len(sub_times) THEN Return(sub_time_trail)
    ELSE LET brk == At(session_breaks, i) = 1
             slash == IF brk THEN <<" / ">> ELSE <<>>
             prev1 == IF brk THEN NoPrev ELSE prev
             tail == IF brk THEN " / "
                     ELSE IF sub_time_trail = <<>> THEN ""
                     ELSE Last(Last(sub_time_trail))
             comma == IF tail # "" /\ ~EndsSpecial(tail) THEN <<",">> ELSE <<>>
             diff == get_submission_time_diff(prev1, At(sub_times, i))
         IN  IF At(sub_times, i) = NoTime
             THEN TimeLoop(sub_times, session_breaks, i + 1,
                           Append(sub_time_trail, slash \o <<"-">>),
                           AnchorAfterDevelop(prev1))
             ELSE IF prev1 = NoPrev
             THEN TimeLoop(sub_times, session_breaks, i + 1,
                           Append(sub_time_trail, slash \o comma \o <<"0">>),
                           At(sub_times, i))
             ELSE TimeLoop(sub_times, session_breaks, i + 1,
                           Append(sub_time_trail,
                                  slash \o comma
                                        \o <<ToString(RoundHalfEven(diff, 60))>>),
                           At(sub_times, i))

assign_time_trail(rs) ==
    LET all_times == [k \in 1..Len(rs) |-> rs[k].sub_time]
        sub_times == [k \in 1..Len(rs) |->
                        IF rs[k].type = SUBMIT THEN rs[k].sub_time ELSE NoTime]
    IN  TimeLoop(sub_times, get_sub_sessions(all_times), 0, <<>>, NoPrev)

---------------------------------------------------------------------------
(* assign_coding_trail, get_day_of_week *)

\* datetime.date(), as days since the Monday the timestamps count from
DateOf(t) == t \div (24 * 60 * 60)

\* weekday_key[datetime.weekday()]
get_day_of_week(t) ==
    <<" M ", " T ", " W ", " R ", " F ", " S ", " U ">>[(DateOf(t) % 7) + 1]

MonthLengths == <<31, 28, 31, 30, 31, 30, 31, 31, 30, 31, 30, 31>>

RECURSIVE MonthOf(_, _)
MonthOf(dayOfYear, m) ==
    IF m = 12 \/ dayOfYear < MonthLengths[m] THEN <<m, dayOfYear + 1>>
    ELSE MonthOf(dayOfYear - MonthLengths[m], m + 1)

Pad2(n) == IF n < 10 THEN "0" \o ToString(n) ELSE ToString(n)

\* strftime('%m/%d')
MonthDay(t) ==
    LET md == MonthOf(DateOf(t) % 365, 1)
    IN  Pad2(md[1]) \o "/" \o Pad2(md[2])

\* list[i] with Python's negative indices
PyAt(list, i) == IF i < 0 THEN list[Len(list) + i + 1] ELSE list[i + 1]

\* variant of WeekPassed: more than 7 days
WeekPassed_strict(t, week_marker) == DateOf(t) - DateOf(week_marker) > 7

\* (vals['datetime'][i].date() - week_marker.date()).days >= 7
WeekPassed(t, week_marker) == DateOf(t) - DateOf(week_marker) >= 7

\* for i in range(len(runs)): one piece of coding_trail per run
RECURSIVE CodingLoop(_, _, _, _)
CodingLoop(rs, i, coding_trail, week_marker) ==
    IF i >= Len(rs) THEN Return(coding_trail)
    ELSE LET t == At(rs, i).sub_time
             day == get_day_of_week(t)
             newDay == i # 0 /\ get_day_of_week(At(rs, i - 1).sub_time) # day
             newWeek == newDay /\ WeekPassed(t, week_marker)
             head == IF i = 0 THEN <<MonthDay(t), day>>
                     ELSE IF newWeek THEN <<" " \o MonthDay(t), day>>
                     ELSE IF newDay THEN <<day>>
                     ELSE <<>>
             score == IF At(rs, i).type = DEVELOP THEN -1 ELSE At(rs, i).score
             token == IF At(rs, i).type = DEVELOP THEN <<"-">>
                      ELSE IF PyAt(rs, i - 1).type = DEVELOP \/ i = 0 \/ head # <<>>
                      THEN <<ToString(score)>>
                      ELSE <<",", ToString(score)>>
         IN  CodingLoop(rs, i + 1, Append(coding_trail, head \o token),
                        IF newWeek THEN t ELSE week_marker)

assign_coding_trail(rs) ==
    IF Len(rs) = 0 THEN Raise("IndexError")
    ELSE CodingLoop(rs, 0, <<>>, At(rs, 0).sub_time)

---------------------------------------------------------------------------
(* assign_drastic_change_trail *)

\* for run in runs: the run numbers appended to dc_trail
RECURSIVE DrasticLoop(_, _, _, _)
DrasticLoop(rs, run_num, dc_trail, prev_code) ==
    IF run_num > Len(rs) THEN Return(dc_trail)
    ELSE LET code == StripBlank(rs[run_num].code)
             diff == IF prev_code # EmptyCode THEN get_diff(prev_code, code)
                     ELSE Return(<<0, 1>>)
             hit == prev_code # EmptyCode /\ Drastic(diff.val)
         IN  IF diff.exc # "" THEN diff
             ELSE DrasticLoop(rs, run_num + 1,
                              IF hit THEN Append(dc_trail, ToString(run_num))
                              ELSE dc_trail,
                              code)

assign_drastic_change_trail(rs) == DrasticLoop(rs, 1, <<>>, EmptyCode)

---------------------------------------------------------------------------
(* The run list and incdev.run *)

\* the first timestamp: a Wednesday morning in February
StartTime == (37 * 24 + 9) * 60 * 60

\* type, code, sub_time, score of a Submission
Submission(type, ver, nonblank, blank, sub_time, score) ==
    [type |-> type,
     code |-> [ver |-> ver, nonblank |-> nonblank, blank |-> blank],
     sub_time |-> sub_time,
     score |-> score]

\* the timestamp of a run `gap` seconds after the last one
NextTime(gap) == IF runs = <<>> THEN StartTime ELSE Last(runs).sub_time + gap

\* data[user_id][lab_id].append(sub)
AppendRun(sub) ==
    /\ pc = "reading"
    /\ runs' = Append(runs, sub)
    /\ UNCHANGED <<pc, incdev_data, exc>>

\* snapshots of varied size and content, a minute apart
AddSnapshot ==
    /\ Len(runs) < MaxRuns
    /\ \E nonblank \in {0, 5, 20, 50, 100}, ver \in {1, 2}, blank \in {0, 2} :
          /\ nonblank = 0 => ver = 1
          /\ blank = 2 => nonblank = 0
          /\ AppendRun(Submission(SUBMIT, ver, nonblank, blank, NextTime(60), 10))

\* long histories of small edits: a 20-line start, then a line more or less each run
AddSmallEdit ==
    /\ Len(runs) < MaxRunsLong
    /\ \E edit \in {-1, 1} :
          LET nonblank == IF runs = <<>> THEN 20 ELSE Last(runs).code.nonblank + edit
          IN  /\ runs = <<>> => edit = 1
              /\ AppendRun(Submission(SUBMIT, 1, nonblank, 0, NextTime(60), 10))

\* submit and develop runs at varied gaps
AddTimedRun ==
    /\ Len(runs) < MaxRunsTimed
    /\ \E type \in {SUBMIT, DEVELOP}, gap \in {30, 90, 1800, 1801} :
          /\ runs = <<>> => gap = 30
          /\ AppendRun(Submission(type, 1, 10, 0, NextTime(gap), 10))

\* submit and develop runs an hour to a week apart
AddDayRun ==
    /\ Len(runs) < MaxRunsDays
    /\ \E type \in {SUBMIT, DEVELOP}, hours \in {1, 20, 6 * 24, 7 * 24} :
          /\ runs = <<>> => hours = 1
          /\ AppendRun(Submission(type, 1, 10, 0, NextTime(hours * 60 * 60), 10))

\* the body of run's loop for one (user_id, lab_id): the six generators in order;
\* an exception leaves run at the generator that raised it
Run ==
    /\ pc = "reading"
    /\ \E outs \in {<<assign_inc_dev_score(runs),
                       assign_inc_dev_score_trail(runs),
                       assign_loc_trail(runs),
                       assign_time_trail(runs),
                       assign_coding_trail(runs),
                       assign_drastic_change_trail(runs)>>} :
          \E first \in {k \in 1..7 : (k <= 6 => outs[k].exc # "")
                                        /\ (\A m \in 1..(k - 1) : outs[m].exc = "")} :
             LET field(k) == IF k < first THEN outs[k].val ELSE 0
             IN  /\ incdev_data' = [incdev_score |-> field(1),
                                    incdev_score_trail |-> field(2),
                                    loc_trail |-> field(3),
                                    time_trail |-> field(4),
                                    coding_trail |-> field(5),
                                    drastic_change_trail |-> field(6)]
                 /\ exc' = IF first = 7 THEN "" ELSE outs[first].exc
                 /\ pc' = IF first = 7 THEN "done" ELSE "raised"
    /\ UNCHANGED runs

Init ==
    /\ runs = <<>>
    /\ pc = "reading"
    /\ incdev_data = [incdev_score |-> 0, incdev_score_trail |-> 0, loc_trail |-> 0,
                      time_trail |-> 0, coding_trail |-> 0,
                      drastic_change_trail |-> 0]
    /\ exc = ""

Next == AddSnapshot \/ Run

NextLong == AddSmallEdit \/ Run

NextTimed == AddTimedRun \/ Run

NextDays == AddDayRun \/ Run

Spec == Init /\ [][Next]_vars

SpecLong == Init /\ [][NextLong]_vars

SpecTimed == Init /\ [][NextTimed]_vars

SpecDays == Init /\ [][NextDays]_vars

---------------------------------------------------------------------------
(* Properties of the score and the score trail *)

\* the non-blank line counts of a run list
LinesOf(rs) == [k \in 1..Len(rs) |-> rs[k].code.nonblank]

\* the reference recurrence: the accumulator after the first k runs, capped at
\* 1.0 after every run and never floored
RECURSIVE RefAcc(_, _)
RefAcc(ls, k) ==
    IF k = 0 THEN 100
    ELSE LET delta == ls[k] - (IF k = 1 THEN 0 ELSE ls[k - 1])
             before == RefAcc(ls, k - 1)
             after == IF delta > 20 THEN before - 4 * (delta - 20) ELSE before + 10
         IN  IF after > 100 THEN 100 ELSE after

RefScore(ls) == IF RefAcc(ls, Len(ls)) < 0 THEN 0 ELSE RefAcc(ls, Len(ls))

\* C1: for every run sequence of length >= 1 the score assign_inc_dev_score
\* returns lies in [0, 1] (0..100 hundredths).
C1_ScoreInUnitInterval ==
    (pc # "reading" /\ Len(runs) >= 1)
        => (0 <= incdev_data.incdev_score /\ incdev_data.incdev_score <= FullScore)

\* C1 witness: a score strictly inside the interval after a penalised step
C1_Witness ==
    /\ pc # "reading"
    /\ Len(runs) >= 2
    /\ \E k \in 2..Len(runs) :
          runs[k].code.nonblank - runs[k - 1].code.nonblank > IncDevLimit
    /\ 0 < incdev_data.incdev_score
    /\ incdev_data.incdev_score < FullScore

\* C2: the score equals the reference recurrence: +0.10 or -0.04 per line over
\* 20, capped at 1.0 after every run, floored at 0 only after the last run.
C2_ScoreIsReference ==
    pc # "reading" => incdev_data.incdev_score = RefScore(LinesOf(runs))

\* C2 witness: the accumulator is negative after some run that is not the last,
\* and a rewarded run follows it
C2_Witness ==
    /\ pc # "reading"
    /\ \E k \in 1..(Len(runs) - 1) :
          /\ RefAcc(LinesOf(runs), k) < 0
          /\ runs[k + 1].code.nonblank - runs[k].code.nonblank <= IncDevLimit
    /\ incdev_data.incdev_score = 0

\* C3: the score printed for run i in the score trail equals the score
\* assign_inc_dev_score returns for the first i runs.
C3_TrailMatchesScore ==
    pc # "reading"
        => \A i \in 1..Len(runs) :
              incdev_data.incdev_score_trail[i].score
                  = assign_inc_dev_score(SubSeq(runs, 1, i)).val

---------------------------------------------------------------------------
(* Properties of the LOC trail *)

\* the length of the longest run of consecutive entries of s that satisfy omitted
RECURSIVE LongestFrom(_, _, _, _, _)
LongestFrom(s, omitted(_), k, current, best) ==
    IF k > Len(s) THEN best
    ELSE LET c == IF omitted(s[k]) THEN current + 1 ELSE 0
         IN  LongestFrom(s, omitted, k + 1, c, IF c > best THEN c ELSE best)

IsDot(piece) == piece = <<".">>

IsZero(tag) == tag = 0

\* the lengths of the maximal runs of entries of s that satisfy omitted
RunLengths(s, omitted(_)) ==
    {j - i + 1 : <<i, j>> \in
        {p \in (1..Len(s)) \X (1..Len(s)) :
            /\ p[1] <= p[2]
            /\ \A k \in p[1]..p[2] : omitted(s[k])
            /\ (p[1] = 1 \/ ~omitted(s[p[1] - 1]))
            /\ (p[2] = Len(s) \/ ~omitted(s[p[2] + 1]))}}

\* the tags after seeding and the trend pass, before the length pass
TrendTags(rs) ==
    LET scan == LocScan(rs, 0, <<>>, <<0>>, EmptyCode).val
    IN  check_subsequence_values(
            SeedLoop(scan.lines, scan.drastic_change, 1, <<1>>).val, scan.lines)

\* C4, as claimed: the LOC trail never contains more than 9 consecutive
\* omitted runs.
C4_AtMostNineOmitted ==
    pc = "done" => LongestFrom(incdev_data.loc_trail, IsDot, 1, 0, 0) <= 9

\* C4, amended: the LOC trail never contains more than 10 consecutive omitted
\* runs.
C4_AtMostTenOmitted ==
    pc = "done" => LongestFrom(incdev_data.loc_trail, IsDot, 1, 0, 0) <= MaxOmitted

\* C4 witness: the length pass cut a run of more than 10 omitted entries
C4_Witness ==
    /\ pc = "done"
    /\ Len(runs) >= 2
    /\ LongestFrom(TrendTags(runs), IsZero, 1, 0, 0) > MaxOmitted
    /\ LongestFrom(incdev_data.loc_trail, IsDot, 1, 0, 0) = MaxOmitted

\* C5: after the three passes every maximal run of omitted entries of the LOC
\* trail has length at least 3.
C5_NoShortOmittedRun ==
    pc = "done" => \A len \in RunLengths(incdev_data.loc_trail, IsDot) : len >= 3

\* C5 witness: the maximum-length rule promoted an entry inside a run of omitted
\* entries and left a fragment shorter than 3 behind it, which was promoted too
C5_Witness ==
    /\ pc = "done"
    /\ Len(runs) >= 2
    /\ \E len \in RunLengths(TrendTags(runs), IsZero) :
          len > MaxOmitted + 1 /\ len < MaxOmitted + 4
    /\ RunLengths(incdev_data.loc_trail, IsDot) = {MaxOmitted}

\* C6: every interior run that adds more than 20 lines is rendered as its line
\* count followed by '*'.
C6_StarMarksViolation ==
    pc = "done"
        => \A i \in 1..(Len(runs) - 2) :
              At(LinesOf(runs), i) - At(LinesOf(runs), i - 1) > 20
                  => LET piece == At(incdev_data.loc_trail, i)
                     IN  /\ Len(piece) >= 2
                         /\ piece[Len(piece)] = "*"
                         /\ piece[Len(piece) - 1] = ToString(At(LinesOf(runs), i))

\* C7: a snapshot with no non-blank line is never fatal: all six generators
\* return, and the step after the empty snapshot is not a drastic change.
C7_EmptySnapshotHarmless ==
    (pc # "reading" /\ \E k \in 1..Len(runs) : runs[k].code.nonblank = 0)
        => /\ pc = "done"
           /\ \A k \in 1..(Len(runs) - 1) :
                 runs[k].code.nonblank = 0
                     => /\ ~incdev_data.incdev_score_trail[k + 1].caret
                        /\ \A j \in 1..Len(incdev_data.loc_trail[k + 1]) :
                              incdev_data.loc_trail[k + 1][j] # "^"
                        /\ \A j \in 1..Len(incdev_data.drastic_change_trail) :
                              incdev_data.drastic_change_trail[j] # ToString(k + 1)

\* C8: for a run sequence of length 0 every generator returns a neutral default
\* (score 1.0, an empty trail), so that run completes.
C8_EmptySequenceNeutral ==
    (pc # "reading" /\ runs = <<>>)
        => /\ pc = "done"
           /\ incdev_data.incdev_score = FullScore
           /\ incdev_data.incdev_score_trail = <<>>
           /\ incdev_data.loc_trail = <<>>
           /\ incdev_data.time_trail = <<>>
           /\ incdev_data.coding_trail = <<>>
           /\ incdev_data.drastic_change_trail = <<>>

---------------------------------------------------------------------------
(* Properties of the time trail *)

\* the seconds between run i and the run before it
GapBefore(i) == runs[i].sub_time - runs[i - 1].sub_time

\* the first run of the session of run i
RECURSIVE SessionStartOf(_)
SessionStartOf(i) ==
    IF i = 1 \/ GapBefore(i) > 1800 THEN i ELSE SessionStartOf(i - 1)

\* the submit runs of run i's session before run i
EarlierSubmits(i) == {k \in SessionStartOf(i)..(i - 1) : runs[k].type = SUBMIT}

LatestOf(S) == CHOOSE k \in S : \A m \in S : m <= k

\* C9: ' / ' is emitted immediately before run i's token iff run i is not the
\* first run and lies more than 1800 seconds after run i-1.
C9_BreakMarkerIffGap ==
    pc = "done"
        => \A i \in 1..Len(runs) :
              LET piece == incdev_data.time_trail[i]
              IN  /\ (piece[1] = " / ") <=> (i >= 2 /\ GapBefore(i) > 1800)
                  /\ \A j \in 2..Len(piece) : piece[j] # " / "

\* C9 witness: a gap of exactly 1800 seconds and a gap of 1801 seconds
C9_Witness ==
    /\ pc = "done"
    /\ \E i \in 2..Len(runs) : GapBefore(i) = 1800
    /\ \E i \in 2..Len(runs) : GapBefore(i) = 1801

\* C10: every run contributes exactly one token: '-' for a develop run, '0' for
\* the first submit run of a session, and for any other submit run the gap in
\* minutes since the previous submit run of its session, develop runs between
\* them notwithstanding.
C10_OneTokenPerRun ==
    pc = "done"
        => \A i \in 1..Len(runs) :
              LET piece == incdev_data.time_trail[i]
                  token == piece[Len(piece)]
              IN  /\ \A j \in 1..(Len(piece) - 1) : piece[j] \in {" / ", ","}
                  /\ runs[i].type = DEVELOP => token = "-"
                  /\ (runs[i].type = SUBMIT /\ EarlierSubmits(i) = {})
                        => token = "0"
                  /\ (runs[i].type = SUBMIT /\ EarlierSubmits(i) # {})
                        => LET gap == runs[i].sub_time
                                        - runs[LatestOf(EarlierSubmits(i))].sub_time
                           IN  \E m \in 0..(gap \div 60 + 1) :
                                  /\ token = ToString(m)
                                  /\ 2 * Abs(60 * m - gap) <= 60

\* C10 witness: a submit run whose previous submit run of the session lies
\* before a develop run, more than a minute back
C10_Witness ==
    /\ pc = "done"
    /\ \E i \in 3..Len(runs) :
          /\ runs[i].type = SUBMIT
          /\ runs[i - 1].type = DEVELOP
          /\ EarlierSubmits(i) # {}
          /\ incdev_data.time_trail[i][Len(incdev_data.time_trail[i])] \notin {"0", "-"}

---------------------------------------------------------------------------
(* Properties of the coding trail *)

\* the calendar day of run i, counted from the Monday the timestamps count from
DayNumber(i) == runs[i].sub_time \div 86400

Weekday(i) == DayNumber(i) % 7

\* the tokens a ' MM/DD' week marker of one of the runs' dates can be
WeekMarkers == {" " \o MonthDay(runs[k].sub_time) : k \in 1..Len(runs)}

DayLetters == {" M ", " T ", " W ", " R ", " F ", " S ", " U "}

\* run i's piece of the coding trail holds a ' MM/DD' week marker
HasWeekMarker(i) ==
    \E j \in 1..Len(incdev_data.coding_trail[i]) :
       incdev_data.coding_trail[i][j] \in WeekMarkers

\* run i's piece of the coding trail holds a day letter
HasDayLetter(i) ==
    \E j \in 1..Len(incdev_data.coding_trail[i]) :
       incdev_data.coding_trail[i][j] \in DayLetters

\* the date of the last week marker due up to run i by the rule of C11, and
\* whether one is due before run i
RECURSIVE RefMarkerDate(_)
MarkerDue(i) ==
    /\ i >= 2
    /\ Weekday(i) # Weekday(i - 1)
    /\ DayNumber(i) - RefMarkerDate(i - 1) >= 7

RefMarkerDate(i) ==
    IF i = 1 THEN DayNumber(1)
    ELSE IF MarkerDue(i) THEN DayNumber(i)
    ELSE RefMarkerDate(i - 1)

RECURSIVE LastEmittedMarker(_)
LastEmittedMarker(i) ==
    IF i = 1 THEN DayNumber(1)
    ELSE IF HasWeekMarker(i - 1) THEN DayNumber(i - 1)
    ELSE LastEmittedMarker(i - 1)

\* C12: the coding trail lists every day and week worked: every run i >= 1 on
\* another calendar date than run i-1 has a day letter before its token, and
\* a ' MM/DD' marker before that when its date is 7 or more days after the last
\* emitted marker.
C12_EveryDayAndWeekListed ==
    pc = "done"
        => \A i \in 2..Len(runs) :
              DayNumber(i) # DayNumber(i - 1)
                  => /\ HasDayLetter(i)
                     /\ DayNumber(i) - LastEmittedMarker(i) >= 7 => HasWeekMarker(i)

---------------------------------------------------------------------------
(* Properties of the trend pass *)

\* the maximal runs of consecutive 0 tags of s, as pairs of positions
ZeroRuns(s) ==
    {p \in (1..Len(s)) \X (1..Len(s)) :
        /\ p[1] <= p[2]
        /\ \A k \in p[1]..p[2] : s[k] = 0
        /\ (p[1] = 1 \/ s[p[1] - 1] # 0)
        /\ (p[2] = Len(s) \/ s[p[2] + 1] # 0)}

\* x lies between a and b, inclusive, whichever is larger
Between(x, a, b) == (a <= x /\ x <= b) \/ (b <= x /\ x <= a)

\* C13: after the trend pass on the seeded tags, in every maximal run of
\* consecutive 0 tags every element's line count lies between the line counts
\* of the run's first and last elements (inclusive), also in the part of a run
\* that precedes an element the pass promoted.
C13_OmittedFollowTrend ==
    (pc = "done" /\ Len(runs) >= 2)
        => \E tags \in {TrendTags(runs)} :
              \A p \in ZeroRuns(tags) :
                 \A k \in p[1]..p[2] :
                    Between(LinesOf(runs)[k], LinesOf(runs)[p[1]], LinesOf(runs)[p[2]])

=============================================================================
